---- MODULE Spec2Model ----
(***************************************************************************)
(* Model of old.py: the batch loop of get_channel_videos, the caption      *)
(* cascade of get_transcript, the audio fallback get_audio_transcript and  *)
(* its worker _process_audio.                                              *)
(*                                                                         *)
(* Three threads take part in the resolution of one video: the main thread *)
(* (get_channel_videos), the worker of the per-video executor, which runs  *)
(* get_transcript and, inside it, get_audio_transcript, and the worker of  *)
(* the audio executor, which runs _process_audio.  Durations are not       *)
(* modelled: a deadline may fire at any moment at which the awaited future *)
(* is not yet done.  Calls of the caption service, of the downloader, of   *)
(* the speech model and of the file system succeed or raise, chosen        *)
(* nondeterministically.                                                   *)
(***************************************************************************)
EXTENDS Naturals, Integers, Sequences, FiniteSets

(* ------------------------------ bounds -------------------------------- *)

\* videos in the metadata response of a batch run
NumVideos == 2
\* caption tracks (manual and generated together) a listing returns at most
MaxTracks == 2

(* ----------------------------- constants ------------------------------ *)

\* preferred_languages, most preferred first
Preferred == <<"es", "es-ES", "es-419", "es-US", "en", "en-US", "en-GB">>

\* the languages that are not translated
TargetLangs == {"es", "es-ES", "es-419", "es-US"}

PreferredSet == {Preferred[k] : k \in 1..Len(Preferred)}

\* languages of the caption service in a run that looks at one resolution:
\* the preference list and one language outside it
AllLangs == PreferredSet \cup {"fr"}

\* languages of the caption service in a batch run: a target language and a
\* language off the list, which needs translation
BatchLangs == {"es", "fr"}

VARIABLES
    total,      \* len(videos_data['items'])
    langs,      \* languages in which the caption service holds tracks
    i,          \* position of the batch loop, 1-based
    mpc,        \* where the main thread is in the loop body
    mres,       \* (transcript_data, transcript_info) of the loop body
    videos,     \* the list videos
    tpc,        \* where the get_transcript worker is
    manual_transcripts,     \* languages of the manual tracks listed
    generated_transcripts,  \* languages of the generated tracks listed
    transcript,             \* local transcript of get_transcript
    transcript_info,        \* local transcript_info of get_transcript
    tret,       \* value get_transcript returned
    listed,     \* how list_transcripts ended in this call
    translated, \* how transcript.translate('es') ended in this call
    fetched,    \* how transcript.fetch() ended in this call
    audioCalls, \* calls of get_audio_transcript in this call
    aret,       \* per video: value get_audio_transcript returns
    akind,      \* per video: how the audio fallback ended
    wpc,        \* per video: where the _process_audio worker is
    wout,       \* per video: outcome of the _process_audio future
    file,       \* per video: temp_audio/<video_id>.mp4 exists
    removeFailed \* per video: os.remove raised

vars == <<total, langs, i, mpc, mres, videos, tpc, manual_transcripts,
          generated_transcripts, transcript, transcript_info, tret, listed,
          translated, fetched, audioCalls, aret, akind, wpc, wout, file,
          removeFailed>>

mainVars == <<i, mpc, mres, videos>>
envVars == <<total, langs>>
cascadeVars == <<manual_transcripts, generated_transcripts, transcript,
                 transcript_info, listed, translated, fetched>>
workerVars == <<wpc, wout, file, removeFailed>>

Videos == 1..total

(* ------------------------------ values -------------------------------- *)

\* transcript = None
NoTrack == [kind |-> "none", lang |-> "", translated |-> FALSE]

\* the Transcript object of one listed track
Track(kind, lang) == [kind |-> kind, lang |-> lang, translated |-> FALSE]

\* transcript_data = None
NoData == [src |-> "none", kind |-> "none", lang |-> "", translated |-> FALSE]

\* what transcript.fetch() returns: the segments of that track, translated
\* or not
Segments(t) ==
    [src |-> "caption", kind |-> t.kind, lang |-> t.lang,
     translated |-> t.translated]

\* [{'text': transcript_text}]
WhisperData ==
    [src |-> "whisper", kind |-> "none", lang |-> "", translated |-> FALSE]

\* provenance strings, as the sequence of their parts
NoEncontrada == <<"No encontrada">>
NoDisponible == <<"No disponible">>
WhisperInfo == <<"Whisper (audio)">>
TimeoutExcedido == <<"Timeout excedido">>
ErrorAlProcesar == <<"Error al procesar">>
ManualInfo(lang) == <<"Manual", lang>>
AutomaticaInfo(lang) == <<"Automatica", lang>>
Traducida == "(Traducida)"

\* transcript_info += " (Traducida)"
Mark(info) == Append(info, Traducida)

HasMarker(info) == \E k \in 1..Len(info) : info[k] = Traducida

Result(data, info) == [data |-> data, info |-> info]

\* return None, "No disponible"
Unavailable == Result(NoData, NoDisponible)

\* the value of the locals before they are assigned
NoResult == Result(NoData, <<>>)

(* ----------------------------- operators ------------------------------ *)

\* for lang in preferred_languages: find_..._transcript([lang]) raises
\* NoTranscriptFound unless the list holds a track of that language; the
\* first language that has one ends the loop.  0: no language matched.
RECURSIVE ScanFrom(_, _)
ScanFrom(k, tracks) ==
    IF k > Len(Preferred) THEN 0
    ELSE IF Preferred[k] \in tracks THEN k
    ELSE ScanFrom(k + 1, tracks)

\* the same loop without its break: the last language that matches wins
RECURSIVE ScanLast(_, _)
ScanLast(k, tracks) ==
    IF k = 0 THEN 0
    ELSE IF Preferred[k] \in tracks THEN k
    ELSE ScanLast(k - 1, tracks)

FirstPreferredNoBreak(tracks) == ScanLast(Len(Preferred), tracks)

FirstPreferred(tracks) == ScanFrom(1, tracks)

\* the track sets a listing can return
TrackSets ==
    {ts \in (SUBSET langs) \X (SUBSET langs) :
        Cardinality(ts[1]) + Cardinality(ts[2]) <= MaxTracks}

\* transcript_info when translate raised: the marker is added all the same
InfoAfterFailedTranslateMarked(info) == Mark(info)

\* transcript_info when translate raised: line 199 is not reached
InfoAfterFailedTranslate(info) == info

\* the result of future.result(timeout=60) turned into None on any failure
AudioOutcomeTagged(wo) ==
    IF wo = "ok" THEN Result(WhisperData, WhisperInfo)
    ELSE Result(NoData, <<"No disponible", wo>>)

\* what get_audio_transcript returns once the future is done: the worker's
\* value, or, the worker's exception caught, (None, "No disponible")
AudioOutcome(wo) ==
    IF wo = "ok" THEN Result(WhisperData, WhisperInfo) ELSE Unavailable

\* an executor that is shut down without waiting
JoinedNoWait(w) == TRUE

\* ThreadPoolExecutor.__exit__ is shutdown(wait=True): the with block is
\* left only when the submitted call has finished
Joined(w) == w = "done"

\* a finally block that leaves the file
AfterRemoveKept(exists) == exists

\* os.remove(temp_path) returned
AfterRemove(exists) == FALSE

\* a loop body that skips the record of a video that timed out
AppendVideoSkipTimeout(vs, id, res) ==
    IF res.info = TimeoutExcedido THEN vs
    ELSE Append(vs, [video_id |-> id, transcript |-> res.data,
                     transcript_info |-> res.info])

\* videos.append({...}); transcript is the joined text of transcript_data,
\* '' for None
AppendVideo(vs, id, res) ==
    Append(vs, [video_id |-> id, transcript |-> res.data,
                transcript_info |-> res.info])

(* ------------------------------- Init --------------------------------- *)

InitState ==
    /\ i = 1
    /\ mpc = "submit"
    /\ mres = NoResult
    /\ videos = <<>>
    /\ tpc = "idle"
    /\ manual_transcripts = {}
    /\ generated_transcripts = {}
    /\ transcript = NoTrack
    /\ transcript_info = NoEncontrada
    /\ tret = NoResult
    /\ listed = "none"
    /\ translated = "none"
    /\ fetched = "none"
    /\ audioCalls = 0
    /\ aret = [v \in Videos |-> NoResult]
    /\ akind = [v \in Videos |-> "none"]
    /\ wpc = [v \in Videos |-> "idle"]
    /\ wout = [v \in Videos |-> "none"]
    /\ file = [v \in Videos |-> FALSE]
    /\ removeFailed = [v \in Videos |-> FALSE]

\* a batch run
Init ==
    /\ total = NumVideos
    /\ langs = BatchLangs
    /\ InitState

\* the resolution of one video, over every language of the preference list
InitResolve ==
    /\ total = 1
    /\ langs = AllLangs
    /\ InitState

(* ------------------- get_channel_videos: the loop --------------------- *)

\* executor.submit(get_transcript, video['id'])
Submit ==
    /\ mpc = "submit"
    /\ i <= total
    /\ mpc' = "result"
    /\ tpc' = "list"
    /\ manual_transcripts' = {}
    /\ generated_transcripts' = {}
    /\ transcript' = NoTrack
    /\ transcript_info' = NoEncontrada
    /\ tret' = NoResult
    /\ listed' = "none"
    /\ translated' = "none"
    /\ fetched' = "none"
    /\ audioCalls' = 0
    /\ UNCHANGED <<envVars, i, mres, videos, aret, akind, workerVars>>

\* the executor cannot be built or start its thread: except Exception
SubmitFails ==
    /\ mpc = "submit"
    /\ i <= total
    /\ mres' = Result(NoData, ErrorAlProcesar)
    /\ mpc' = "append"
    /\ UNCHANGED <<envVars, i, videos, tpc, cascadeVars, tret, audioCalls,
                   aret, akind, workerVars>>

\* future.result(timeout=90) returns the value of get_transcript
TakeResult ==
    /\ mpc = "result"
    /\ tpc = "done"
    /\ mres' = tret
    /\ mpc' = "exit"
    /\ UNCHANGED <<envVars, i, videos, tpc, cascadeVars, tret, audioCalls,
                   aret, akind, workerVars>>

\* future.result(timeout=90) raises TimeoutError
Timeout90 ==
    /\ mpc = "result"
    /\ tpc # "done"
    /\ mres' = Result(NoData, TimeoutExcedido)
    /\ mpc' = "exit"
    /\ UNCHANGED <<envVars, i, videos, tpc, cascadeVars, tret, audioCalls,
                   aret, akind, workerVars>>

\* the end of the with block of the loop body
ExecutorExit ==
    /\ mpc = "exit"
    /\ Joined(tpc)
    /\ mpc' = "append"
    /\ UNCHANGED <<envVars, i, mres, videos, tpc, cascadeVars, tret,
                   audioCalls, aret, akind, workerVars>>

\* videos.append, time.sleep(0.5) and the next iteration
AppendRecord ==
    /\ mpc = "append"
    /\ videos' = AppendVideo(videos, i, mres)
    /\ i' = i + 1
    /\ mres' = NoResult
    /\ mpc' = IF i + 1 > total THEN "done" ELSE "submit"
    /\ UNCHANGED <<envVars, tpc, cascadeVars, tret, audioCalls, aret, akind,
                   workerVars>>

(* --------------------------- get_transcript --------------------------- *)

tUnchangedMain == UNCHANGED <<envVars, mainVars>>

\* YouTubeTranscriptApi.list_transcripts returns a TranscriptList
ListTranscripts ==
    /\ tpc = "list"
    /\ \E ts \in TrackSets :
        /\ manual_transcripts' = ts[1]
        /\ generated_transcripts' = ts[2]
    /\ listed' = "tracks"
    /\ tpc' = "manual"
    /\ tUnchangedMain
    /\ UNCHANGED <<transcript, transcript_info, tret, translated, fetched,
                   audioCalls, aret, akind, workerVars>>

\* list_transcripts raises TranscriptsDisabled or NoTranscriptFound:
\* return get_audio_transcript(video_id)
ListNoCaptions ==
    /\ tpc = "list"
    /\ listed' = "nocaptions"
    /\ audioCalls' = audioCalls + 1
    /\ tpc' = "a_submit"
    /\ tUnchangedMain
    /\ UNCHANGED <<manual_transcripts, generated_transcripts, transcript,
                   transcript_info, tret, translated, fetched, aret, akind,
                   workerVars>>

\* list_transcripts raises anything else: except Exception, then the final
\* return None, "No disponible"
ListOtherError ==
    /\ tpc = "list"
    /\ listed' = "other"
    /\ tret' = Unavailable
    /\ tpc' = "done"
    /\ tUnchangedMain
    /\ UNCHANGED <<manual_transcripts, generated_transcripts, transcript,
                   transcript_info, translated, fetched, audioCalls, aret,
                   akind, workerVars>>

\* the loop over find_manually_created_transcript
ScanManual ==
    /\ tpc = "manual"
    /\ LET k == FirstPreferred(manual_transcripts) IN
        IF k # 0
        THEN /\ transcript' = Track("manual", Preferred[k])
             /\ transcript_info' = ManualInfo(Preferred[k])
        ELSE UNCHANGED <<transcript, transcript_info>>
    /\ tpc' = "auto"
    /\ tUnchangedMain
    /\ UNCHANGED <<manual_transcripts, generated_transcripts, tret, listed,
                   translated, fetched, audioCalls, aret, akind, workerVars>>

\* if not transcript: the loop over find_generated_transcript
ScanGenerated ==
    /\ tpc = "auto"
    /\ LET k == FirstPreferred(generated_transcripts) IN
        IF transcript = NoTrack /\ k # 0
        THEN /\ transcript' = Track("auto", Preferred[k])
             /\ transcript_info' = AutomaticaInfo(Preferred[k])
        ELSE UNCHANGED <<transcript, transcript_info>>
    /\ tpc' = "any"
    /\ tUnchangedMain
    /\ UNCHANGED <<manual_transcripts, generated_transcripts, tret, listed,
                   translated, fetched, audioCalls, aret, akind, workerVars>>

\* if not transcript: the first of the manual tracks, else the first of the
\* generated tracks; which one is first is the service's order
TakeAny ==
    /\ tpc = "any"
    /\ IF transcript # NoTrack
       THEN UNCHANGED <<transcript, transcript_info>>
       ELSE IF manual_transcripts # {}
       THEN \E l \in manual_transcripts :
               /\ transcript' = Track("manual", l)
               /\ transcript_info' = ManualInfo(l)
       ELSE IF generated_transcripts # {}
       THEN \E l \in generated_transcripts :
               /\ transcript' = Track("auto", l)
               /\ transcript_info' = AutomaticaInfo(l)
       ELSE UNCHANGED <<transcript, transcript_info>>
    /\ tpc' = "translate"
    /\ tUnchangedMain
    /\ UNCHANGED <<manual_transcripts, generated_transcripts, tret, listed,
                   translated, fetched, audioCalls, aret, akind, workerVars>>

\* the lookup of transcript_list.manual_transcripts or .generated_transcripts
\* raises (the attribute is missing): except: pass
TakeAnyRaises ==
    /\ tpc = "any"
    /\ transcript = NoTrack
    /\ tpc' = "translate"
    /\ tUnchangedMain
    /\ UNCHANGED <<cascadeVars, tret, audioCalls, aret, akind, workerVars>>

\* if transcript: a track in a target language is left as it is
KeepLanguage ==
    /\ tpc = "translate"
    /\ transcript # NoTrack
    /\ transcript.lang \in TargetLangs
    /\ tpc' = "fetch"
    /\ tUnchangedMain
    /\ UNCHANGED <<cascadeVars, tret, audioCalls, aret, akind, workerVars>>

\* transcript = transcript.translate('es'); transcript_info += " (Traducida)"
Translate ==
    /\ tpc = "translate"
    /\ transcript # NoTrack
    /\ transcript.lang \notin TargetLangs
    /\ transcript' = [transcript EXCEPT !.translated = TRUE]
    /\ transcript_info' = Mark(transcript_info)
    /\ translated' = "ok"
    /\ tpc' = "fetch"
    /\ tUnchangedMain
    /\ UNCHANGED <<manual_transcripts, generated_transcripts, tret, listed,
                   fetched, audioCalls, aret, akind, workerVars>>

\* transcript.translate('es') raises: except Exception, st.warning
TranslateFails ==
    /\ tpc = "translate"
    /\ transcript # NoTrack
    /\ transcript.lang \notin TargetLangs
    /\ transcript_info' = InfoAfterFailedTranslate(transcript_info)
    /\ translated' = "failed"
    /\ tpc' = "fetch"
    /\ tUnchangedMain
    /\ UNCHANGED <<manual_transcripts, generated_transcripts, transcript,
                   tret, listed, fetched, audioCalls, aret, akind,
                   workerVars>>

\* if transcript: is false; the try block ends and line 213 returns
NoTranscript ==
    /\ tpc = "translate"
    /\ transcript = NoTrack
    /\ tret' = Unavailable
    /\ tpc' = "done"
    /\ tUnchangedMain
    /\ UNCHANGED <<cascadeVars, audioCalls, aret, akind, workerVars>>

\* transcript_data = transcript.fetch(); return transcript_data,
\* transcript_info
Fetch ==
    /\ tpc = "fetch"
    /\ fetched' = "ok"
    /\ tret' = Result(Segments(transcript), transcript_info)
    /\ tpc' = "done"
    /\ tUnchangedMain
    /\ UNCHANGED <<manual_transcripts, generated_transcripts, transcript,
                   transcript_info, listed, translated, audioCalls, aret,
                   akind, workerVars>>

\* fetch raises TranscriptsDisabled or NoTranscriptFound: the handler of
\* line 207 covers the whole try block
FetchNoCaptions ==
    /\ tpc = "fetch"
    /\ fetched' = "nocaptions"
    /\ audioCalls' = audioCalls + 1
    /\ tpc' = "a_submit"
    /\ tUnchangedMain
    /\ UNCHANGED <<manual_transcripts, generated_transcripts, transcript,
                   transcript_info, tret, listed, translated, aret, akind,
                   workerVars>>

\* fetch raises anything else: except Exception, return None, "No disponible"
FetchOtherError ==
    /\ tpc = "fetch"
    /\ fetched' = "other"
    /\ tret' = Unavailable
    /\ tpc' = "done"
    /\ tUnchangedMain
    /\ UNCHANGED <<manual_transcripts, generated_transcripts, transcript,
                   transcript_info, listed, translated, audioCalls, aret,
                   akind, workerVars>>

(* ------------------------ get_audio_transcript ------------------------ *)

\* the video whose resolution the worker threads are running
cur == IF i <= total THEN i ELSE total

\* executor.submit(_process_audio, video_id)
AudioSubmit ==
    /\ tpc = "a_submit"
    /\ wpc' = [wpc EXCEPT ![cur] = "start"]
    /\ wout' = [wout EXCEPT ![cur] = "none"]
    /\ tpc' = "a_result"
    /\ tUnchangedMain
    /\ UNCHANGED <<cascadeVars, tret, audioCalls, aret, akind, file,
                   removeFailed>>

\* future.result(timeout=60) returns the value of _process_audio or raises
\* its exception, which leaves the with block and is caught at line 75
AudioResult ==
    /\ tpc = "a_result"
    /\ wpc[cur] = "done"
    /\ aret' = [aret EXCEPT ![cur] = AudioOutcome(wout[cur])]
    /\ akind' = [akind EXCEPT ![cur] = wout[cur]]
    /\ tpc' = "a_exit"
    /\ tUnchangedMain
    /\ UNCHANGED <<cascadeVars, tret, audioCalls, workerVars>>

\* future.result(timeout=60) raises TimeoutError: return None,
\* "No disponible" from inside the with block
AudioTimeout ==
    /\ tpc = "a_result"
    /\ wpc[cur] # "done"
    /\ aret' = [aret EXCEPT ![cur] = Unavailable]
    /\ akind' = [akind EXCEPT ![cur] = "timeout"]
    /\ tpc' = "a_exit"
    /\ tUnchangedMain
    /\ UNCHANGED <<cascadeVars, tret, audioCalls, workerVars>>

\* the end of the with block of get_audio_transcript, and the return of
\* get_transcript with that value (return get_audio_transcript(video_id))
AudioExecutorExit ==
    /\ tpc = "a_exit"
    /\ Joined(wpc[cur])
    /\ tret' = aret[cur]
    /\ tpc' = "done"
    /\ tUnchangedMain
    /\ UNCHANGED <<cascadeVars, audioCalls, aret, akind, workerVars>>

(* --------------------------- _process_audio --------------------------- *)

wUnchanged ==
    UNCHANGED <<envVars, mainVars, tpc, cascadeVars, tret, audioCalls, aret,
                akind>>

\* os.makedirs(temp_dir), st.info, YouTube(...)
WorkerStart(v) ==
    /\ wpc[v] = "start"
    /\ wpc' = [wpc EXCEPT ![v] = "stream"]
    /\ wUnchanged
    /\ UNCHANGED <<wout, file, removeFailed>>

\* the while loop ends within its 30 seconds with
\* audio_stream = streams.first(); break
StreamFound(v) ==
    /\ wpc[v] = "stream"
    /\ wpc' = [wpc EXCEPT ![v] = "download"]
    /\ wUnchanged
    /\ UNCHANGED <<wout, file, removeFailed>>

\* the while loop ends with audio_stream = None, or YouTube(...) raised:
\* raise Exception("No se pudo obtener el audio"), wrapped at line 127
StreamGiveUp(v) ==
    /\ wpc[v] = "stream"
    /\ wout' = [wout EXCEPT ![v] = "download"]
    /\ wpc' = [wpc EXCEPT ![v] = "finally"]
    /\ wUnchanged
    /\ UNCHANGED <<file, removeFailed>>

\* audio_stream.download(output_path=temp_dir, filename=...) returns
Download(v) ==
    /\ wpc[v] = "download"
    /\ file' = [file EXCEPT ![v] = TRUE]
    /\ wpc' = [wpc EXCEPT ![v] = "transcribe"]
    /\ wUnchanged
    /\ UNCHANGED <<wout, removeFailed>>

\* the download raises, before or after it has opened the file
DownloadFails(v) ==
    /\ wpc[v] = "download"
    /\ \E partial \in BOOLEAN : file' = [file EXCEPT ![v] = @ \/ partial]
    /\ wout' = [wout EXCEPT ![v] = "download"]
    /\ wpc' = [wpc EXCEPT ![v] = "finally"]
    /\ wUnchanged
    /\ UNCHANGED <<removeFailed>>

\* load_whisper_model(), model.transcribe, return [{'text': ...}],
\* "Whisper (audio)"
Transcribe(v) ==
    /\ wpc[v] = "transcribe"
    /\ wout' = [wout EXCEPT ![v] = "ok"]
    /\ wpc' = [wpc EXCEPT ![v] = "finally"]
    /\ wUnchanged
    /\ UNCHANGED <<file, removeFailed>>

\* loading the model or transcribing raises, wrapped at line 127
TranscribeFails(v) ==
    /\ wpc[v] = "transcribe"
    /\ wout' = [wout EXCEPT ![v] = "transcribe"]
    /\ wpc' = [wpc EXCEPT ![v] = "finally"]
    /\ wUnchanged
    /\ UNCHANGED <<file, removeFailed>>

\* finally: if os.path.exists(temp_path): os.remove(temp_path)
Cleanup(v) ==
    /\ wpc[v] = "finally"
    /\ file' = [file EXCEPT ![v] = IF @ THEN AfterRemove(@) ELSE @]
    /\ wpc' = [wpc EXCEPT ![v] = "done"]
    /\ wUnchanged
    /\ UNCHANGED <<wout, removeFailed>>

\* finally: os.remove(temp_path) raises: except: pass
CleanupFails(v) ==
    /\ wpc[v] = "finally"
    /\ file[v]
    /\ removeFailed' = [removeFailed EXCEPT ![v] = TRUE]
    /\ wpc' = [wpc EXCEPT ![v] = "done"]
    /\ wUnchanged
    /\ UNCHANGED <<wout, file>>

(* ------------------------------- Next --------------------------------- *)

Next ==
    \/ Submit
    \/ SubmitFails
    \/ TakeResult
    \/ Timeout90
    \/ ExecutorExit
    \/ AppendRecord
    \/ ListTranscripts
    \/ ListNoCaptions
    \/ ListOtherError
    \/ ScanManual
    \/ ScanGenerated
    \/ TakeAny
    \/ TakeAnyRaises
    \/ KeepLanguage
    \/ Translate
    \/ TranslateFails
    \/ NoTranscript
    \/ Fetch
    \/ FetchNoCaptions
    \/ FetchOtherError
    \/ AudioSubmit
    \/ AudioResult
    \/ AudioTimeout
    \/ AudioExecutorExit
    \/ \E v \in Videos :
        \/ WorkerStart(v)
        \/ StreamFound(v)
        \/ StreamGiveUp(v)
        \/ Download(v)
        \/ DownloadFails(v)
        \/ Transcribe(v)
        \/ TranscribeFails(v)
        \/ Cleanup(v)
        \/ CleanupFails(v)

Spec == Init /\ [][Next]_vars

ResolveSpec == InitResolve /\ [][Next]_vars

(* ----------------------------- properties ----------------------------- *)

\* the listing returned tracks and the three selection steps are over
SelectionDone ==
    /\ listed = "tracks"
    /\ tpc \notin {"list", "manual", "auto", "any"}

\* get_audio_transcript has returned for video v
AudioReturned(v) ==
    /\ akind[v] # "none"
    /\ ~(v = cur /\ tpc = "a_exit")

\* the three failure outcomes of the audio fallback
AudioFailures == {"download", "transcribe", "timeout"}

\* get_transcript has returned for the video of the current iteration
Resolved ==
    /\ tpc = "done"
    /\ mpc \in {"result", "exit"}

\* C1: when a manual track exists in a language of the preference list, the
\* selected track is manual, its language is on the list and has a manual
\* track, and no manual track exists in a language earlier on the list;
\* generated tracks, of whatever language, do not change this.
C1_ManualPreferredWins ==
    (SelectionDone /\ manual_transcripts \cap PreferredSet # {}) =>
        /\ transcript.kind = "manual"
        /\ transcript.lang \in manual_transcripts \cap PreferredSet
        /\ \A k \in 1..Len(Preferred) :
              Preferred[k] \in manual_transcripts =>
                 \E j \in 1..k : Preferred[j] = transcript.lang

\* a manual track in "en" is selected although "es", the top language, has a
\* generated track
C1_Witness ==
    /\ tpc = "fetch"
    /\ manual_transcripts = {"en"}
    /\ generated_transcripts = {"es"}
    /\ transcript.kind = "manual"
    /\ transcript.lang = "en"

\* C2 (as claimed): with generated tracks only, the selected track is the
\* generated track of the first preference-list language that has one; with
\* none on the list some track is still selected, and the call returns a
\* caption-derived result, not (None, "No disponible").
C2_Claim ==
    (SelectionDone /\ manual_transcripts = {} /\ generated_transcripts # {}) =>
        /\ generated_transcripts \cap PreferredSet # {} =>
              /\ transcript.kind = "auto"
              /\ transcript.lang \in generated_transcripts \cap PreferredSet
              /\ \A k \in 1..Len(Preferred) :
                    Preferred[k] \in generated_transcripts =>
                       \E j \in 1..k : Preferred[j] = transcript.lang
        /\ generated_transcripts \cap PreferredSet = {} =>
              /\ transcript.kind = "auto"
              /\ transcript.lang \in generated_transcripts
              /\ Resolved =>
                    (tret # Unavailable /\ tret.data.src = "caption")

\* C3 (as claimed): the audio fallback is called once when the listing
\* reports no captions, and never when the listing returned a track or
\* failed in another way, whatever the later steps raise.
C3_Claim ==
    /\ (Resolved /\ listed = "nocaptions") => audioCalls = 1
    /\ listed = "other" => audioCalls = 0
    /\ (listed = "tracks"
        /\ manual_transcripts \cup generated_transcripts # {}) =>
           audioCalls = 0

C5_Claim ==
    Resolved =>
        /\ HasMarker(tret.info) <=> translated = "ok"
        /\ (transcript # NoTrack /\ transcript.lang \in TargetLangs) =>
              (translated = "none" /\ ~HasMarker(tret.info))
        /\ translated = "failed" =>
              /\ tret.data = Segments(Track(transcript.kind, transcript.lang))
              /\ ~HasMarker(tret.info)

\* C5 (amended): the provenance bears the marker only if translate was
\* called and returned, and, when the fetch of the selected track succeeds,
\* exactly then; a track in a target language is not translated and not
\* marked; a failed translation does not end the call: the untranslated
\* track is fetched and, if that fetch succeeds, its segments are returned
\* unmarked.
C5_MarkerOnlyAfterTranslation ==
    /\ HasMarker(transcript_info) => translated = "ok"
    /\ (transcript # NoTrack /\ transcript.lang \in TargetLangs) =>
          (translated = "none" /\ ~HasMarker(transcript_info))
    /\ translated = "failed" =>
          (tpc \in {"fetch", "a_submit", "a_result", "a_exit", "done"}
           /\ ~transcript.translated)
    /\ Resolved =>
          /\ HasMarker(tret.info) => translated = "ok"
          /\ fetched = "ok" =>
                /\ HasMarker(tret.info) <=> translated = "ok"
                /\ tret.data = Segments(transcript)
                /\ tret.data.translated <=> translated = "ok"

\* the translation of a manual "en" track failed and its own segments are
\* returned
C5_Witness ==
    /\ Resolved
    /\ translated = "failed"
    /\ fetched = "ok"
    /\ tret = Result(Segments(Track("manual", "en")), ManualInfo("en"))

\* C6 (as claimed): two audio fallbacks that failed in different ways return
\* unavailable results with different provenance.
C6_Claim ==
    \A v, w \in Videos :
        (/\ AudioReturned(v) /\ AudioReturned(w)
         /\ akind[v] \in AudioFailures /\ akind[w] \in AudioFailures
         /\ akind[v] # akind[w]) =>
            /\ aret[v].data = NoData /\ aret[w].data = NoData
            /\ aret[v].info # aret[w].info

\* C6 (amended): each of the three failures is returned, not raised, as the
\* same value (None, "No disponible"), which get_transcript passes on.
C6_FailuresReturnUnavailable ==
    /\ \A v \in Videos : akind[v] \in AudioFailures => aret[v] = Unavailable
    /\ (Resolved /\ akind[cur] \in AudioFailures) => tret = Unavailable
    /\ (Resolved /\ akind[cur] = "ok") => tret = Result(WhisperData, WhisperInfo)

\* the download of the first video failed, the second video ran into the
\* deadline, and both calls returned
C6_Witness ==
    /\ total >= 2
    /\ AudioReturned(1) /\ akind[1] = "download"
    /\ AudioReturned(2) /\ akind[2] = "timeout"
    /\ aret[1] = aret[2]

\* C7: the loop appends one record per video, in input order, whatever the
\* resolution of each video came to.
C7_OneRecordPerVideo ==
    /\ Len(videos) = i - 1
    /\ i <= total + 1
    /\ \A k \in 1..Len(videos) : videos[k].video_id = k
    /\ mpc = "done" => Len(videos) = total

\* the first video ran into the 90 second deadline, the executor of the
\* second could not start, and both have their record
C7_Witness ==
    /\ mpc = "done"
    /\ Len(videos) >= 2
    /\ videos[1].transcript_info = TimeoutExcedido
    /\ videos[2].transcript_info = ErrorAlProcesar

\* C8 (as claimed): once the 60 second deadline has fired, the call can
\* return, whether or not the worker has finished.
C8_Claim ==
    (tpc = "a_exit" /\ akind[cur] = "timeout") => ENABLED AudioExecutorExit

\* C9: no worker of an earlier video runs while a later video is worked on,
\* and none runs while the main thread is between two videos.
C9_NoOverlap ==
    /\ \A v \in Videos : v # cur => wpc[v] \in {"idle", "done"}
    /\ mpc \in {"submit", "append", "done"} =>
          /\ tpc \in {"idle", "done"}
          /\ \A v \in Videos : wpc[v] \in {"idle", "done"}

\* both deadlines fired for the first video, and the audio worker of the
\* second is downloading
C9_Witness ==
    /\ i = 2
    /\ akind[1] = "timeout"
    /\ videos[1].transcript_info = TimeoutExcedido
    /\ wpc[2] = "download"

\* C10 (as claimed): when the listing succeeds and no track is selected,
\* the audio fallback is called and its result is the result of the call.
C10_Claim ==
    (Resolved /\ listed = "tracks" /\ transcript = NoTrack) =>
        /\ audioCalls = 1
        /\ tret = aret[cur]

====
